---- MODULE Spec2Model ----
(***************************************************************************)
(* The remote-control session server of src-tauri/src/remote_server.rs:    *)
(* the shared ServerState (status + broadcast channel), the WebSocket      *)
(* accept loop and per-connection read loop / writer task, the HTTP        *)
(* command endpoint, the command dispatcher and the host's update_status.  *)
(*                                                                         *)
(* Numbers that are f64 in the source (speeds, seek positions) are kept in *)
(* tenths, so 0.5 is 5 and 2.0 is 20.                                      *)
(***************************************************************************)
EXTENDS Integers, Sequences, FiniteSets, TLC

(* ---------------------------------------------------------------------- *)
(* Bounds of the model                                                     *)
(* ---------------------------------------------------------------------- *)

\* connections the listener accepts in one run
MaxConns == 2

\* calls of update_status in one run
MaxPushes == 3

\* commands dispatched (WebSocket and HTTP together) in one run
MaxDispatch == 1

\* messages the broadcast channel retains; the source builds the channel
\* with 32 (remote_server.rs:87), the model scales it so that a receiver
\* can fall behind within MaxPushes
BroadcastCapacity == 2

\* ticks of the wall clock in one run
MaxClock == 2

\* calls of start_remote_server in one run
MaxStarts == 2

Conns == 1..MaxConns

(* ---------------------------------------------------------------------- *)
(* RemoteStatus and its JSON form                                          *)
(* ---------------------------------------------------------------------- *)

\* Option<usize>: None is <<>>, Some(n) is <<n>>
InitialStatus ==
    [ is_playing        |-> FALSE,
      current_speed     |-> 10,
      current_segment   |-> <<0>>,
      total_segments    |-> 1,
      project_name      |-> "Untitled Project",
      timestamp         |-> 0,
      connected_clients |-> 0,
      is_live           |-> FALSE ]

\* the Status a peer sends in a status-sync message
SyncPayloads ==
    { [ is_playing        |-> TRUE,
        current_speed     |-> 15,
        current_segment   |-> <<2>>,
        total_segments    |-> 5,
        project_name      |-> "Synced Talk",
        timestamp         |-> 7,
        connected_clients |-> 999,
        is_live           |-> TRUE ] }

\* the Status the host application passes to sync_remote_status
HostPayloads ==
    { [ is_playing        |-> TRUE,
        current_speed     |-> 20,
        current_segment   |-> <<>>,
        total_segments    |-> 3,
        project_name      |-> "Host Talk",
        timestamp         |-> 9,
        connected_clients |-> 0,
        is_live           |-> FALSE ] }

\* serde_json::to_string(&status): the members in the order of the struct
ToJson(s) ==
    << <<"is_playing", s.is_playing>>,
       <<"current_speed", s.current_speed>>,
       <<"current_segment", s.current_segment>>,
       <<"total_segments", s.total_segments>>,
       <<"project_name", s.project_name>>,
       <<"timestamp", s.timestamp>>,
       <<"connected_clients", s.connected_clients>>,
       <<"is_live", s.is_live>> >>

(* ---------------------------------------------------------------------- *)
(* RemoteCommand and the command dispatcher                                *)
(* ---------------------------------------------------------------------- *)

Absent == [kind |-> "absent"]
Text(s) == [kind |-> "string", str |-> s]
Number(n) == [kind |-> "number", num |-> n]
Unit == [kind |-> "unit"]

CommandTypes ==
    { "play", "pause", "stop", "next_segment", "prev_segment", "set_speed",
      "toggle_mirror", "reset_position", "go_live", "exit_live", "seek" }

\* command.value of the commands the model sends: none, a string, and
\* numbers below, at the ends of, inside and above the speed range
CommandValues ==
    { Absent, Text("fast"),
      Number(1), Number(5), Number(12), Number(20), Number(50) }

ValuedTypes == { "set_speed", "seek" }

\* the commands the model sends: the two types that read a value with every
\* value, the others (and one unknown type) without one
Commands ==
    [type : ValuedTypes, value : CommandValues]
    \cup [type : (CommandTypes \cup {"frobnicate"}) \ ValuedTypes, value : {Absent}]

\* the commands the sessions of the full server model send
SessionCommands == { [type |-> "play", value |-> Absent] }

\* app_handle.emit(name, payload); ok is whether the host took the event
Emit(name, payload, ok) ==
    << [event |-> name, payload |-> payload, delivered |-> ok] >>

Max(a, b) == IF a >= b THEN a ELSE b
Min(a, b) == IF a <= b THEN a ELSE b

\* the two limits applied the other way round
ClampSpeed_Swapped(speed) == Max(Min(speed, 5), 20)

\* speed.max(0.5).min(2.0)
ClampSpeed(speed) == Min(Max(speed, 5), 20)

\* RemoteServer::handle_command: the emit calls it makes
HandleCommand(command, ok) ==
    CASE command.type = "play" -> Emit("remote-play", Unit, ok)
      [] command.type = "pause" -> Emit("remote-pause", Unit, ok)
      [] command.type = "stop" -> Emit("remote-stop", Unit, ok)
      [] command.type = "next_segment" -> Emit("remote-next-segment", Unit, ok)
      [] command.type = "prev_segment" -> Emit("remote-prev-segment", Unit, ok)
      [] command.type = "set_speed" ->
            IF command.value.kind = "absent" THEN << >>
            ELSE IF command.value.kind = "number"
                 THEN Emit("remote-set-speed",
                           Number(ClampSpeed(command.value.num)), ok)
                 ELSE << >>
      [] command.type = "toggle_mirror" -> Emit("remote-toggle-mirror", Unit, ok)
      [] command.type = "reset_position" -> Emit("remote-reset-position", Unit, ok)
      [] command.type = "go_live" -> Emit("remote-go-live", Unit, ok)
      [] command.type = "exit_live" -> Emit("remote-exit-live", Unit, ok)
      [] command.type = "seek" ->
            IF command.value.kind = "absent" THEN << >>
            ELSE IF command.value.kind = "number"
                 THEN Emit("remote-seek", Number(command.value.num), ok)
                 ELSE << >>
      [] OTHER -> << >>

(* ---------------------------------------------------------------------- *)
(* State                                                                   *)
(* ---------------------------------------------------------------------- *)

VARIABLES
    status,         \* ServerState.status
    broadcast_tx,   \* every message the broadcast channel took, oldest first
    pushes,         \* calls of update_status so far
    phase,          \* per connection: where its task of the accept loop is
    writer_task,    \* per connection: "none", "running", "failed", "aborted"
    rx_local,       \* per connection: the unbounded direct queue
    rx_broadcast,   \* per connection: position of the next broadcast to read
    bcast_off,      \* per connection: broadcast branch disabled in this select!
    written,        \* per connection: what write_half.send wrote, in order
    dispatched,     \* the commands handled, with the emit calls of each
    http_replies,   \* the bodies POST /command answered with, in order
    is_running,     \* RemoteServerState.is_running
    remote_state,   \* AppState.remote_state: 0 is None, else the Store recorded
    ws_listener,    \* the spawned RemoteServer::start: how far it is, its Store
    http_listener,  \* the spawned MobileInterfaceServer::start, likewise
    starts,         \* calls of start_remote_server so far
    stores,         \* calls of RemoteServer::new so far
    server_errors,  \* the remote-server-error events the spawned tasks emit
    now,            \* the wall clock, chrono::Utc::now()
    served,         \* the last body GET /status answered with
    sync_guard,     \* the write guard the StatusSync branch holds, if it does
    sync_reply      \* what the last sync_remote_status returned

\* what start_remote_server and the two tasks it spawns write
startup == << is_running, remote_state, ws_listener, http_listener, starts,
             stores, server_errors >>

vars == << status, broadcast_tx, pushes, phase, writer_task, rx_local,
           rx_broadcast, bcast_off, written, dispatched, http_replies,
           startup, now, served, sync_guard, sync_reply >>

\* a task that has not been spawned
NotSpawned == [at |-> "none", store |-> 0]

\* no GET /status has been answered
NothingServed == << >>

\* the state lock is held by no StatusSync branch
NoGuard == [holder |-> 0, server_client_count |-> 0]

\* AppState as run() builds it: nothing is running, no Store is recorded;
\* `status` holds what RemoteServer::new will put in the Store
Init ==
    /\ is_running = FALSE
    /\ remote_state = 0
    /\ ws_listener = NotSpawned
    /\ http_listener = NotSpawned
    /\ starts = 0
    /\ stores = 0
    /\ server_errors = << >>
    /\ now = 0
    /\ served = NothingServed
    /\ sync_guard = NoGuard
    /\ sync_reply = "none"
    /\ status = InitialStatus
    /\ broadcast_tx = << >>
    /\ pushes = 0
    /\ phase = [c \in Conns |-> "Idle"]
    /\ writer_task = [c \in Conns |-> "none"]
    /\ rx_local = [c \in Conns |-> << >>]
    /\ rx_broadcast = [c \in Conns |-> 1]
    /\ bcast_off = [c \in Conns |-> FALSE]
    /\ written = [c \in Conns |-> << >>]
    /\ dispatched = << >>
    /\ http_replies = << >>

(* ---------------------------------------------------------------------- *)
(* Status Store operations                                                 *)
(* ---------------------------------------------------------------------- *)

\* state.read().await returns at once whatever a writer is doing
ReadGuard_Dirty == TRUE

\* state.read().await: waits while a write guard is held
ReadGuard == sync_guard.holder = 0

\* state.write().await: waits while another guard is held; the read guards
\* of the model are taken and dropped within one step
WriteGuard == sync_guard.holder = 0

\* the read loop of c is between two frames, not inside a branch
AwaitingFrame(c) == phase[c] = "Active" /\ sync_guard.holder # c

\* connected_clients += 1
IncrementClients(s) ==
    [s EXCEPT !.connected_clients = @ + 1]

\* a plain subtraction in place of the saturating one
SaturatingSub_Plain(n) == n - 1

\* connected_clients.saturating_sub(1)
SaturatingSub(n) == IF n > 0 THEN n - 1 ELSE 0

DecrementClients(s) ==
    [s EXCEPT !.connected_clients = SaturatingSub(@)]

\* the StatusSync branch without the restore of the saved count
SyncReplace_NoRestore(s, payload) == payload

\* the StatusSync branch: status = payload, then the saved count restored
SyncReplace(s, payload) ==
    [payload EXCEPT !.connected_clients = s.connected_clients]

\* update_status: state_guard.status = new_status.clone()
PushReplace(s, new_status) == new_status

\* the writer task of c has not ended: it runs its loop, or waits in
\* write_half.send(..) for a socket that takes no more bytes
WriterAlive(c) == writer_task[c] \in {"running", "blocked"}

\* receivers of the broadcast channel: one per writer task that has not ended
Receivers == { c \in Conns : WriterAlive(c) }

\* broadcast_tx.send(json): refused when no receiver is left
BroadcastSend(q, json, n) ==
    IF Receivers = {} THEN q ELSE Append(q, [seq |-> n, json |-> json])

\* tx.send(msg) on the direct queue: fails once the writer dropped rx_local
DirectSend(c, msg) ==
    IF WriterAlive(c)
    THEN [rx_local EXCEPT ![c] = Append(@, msg)]
    ELSE rx_local

\* an end of one writer task that takes every connection's receivers with it
DropReceivers_All(f, c, fresh) == [d \in Conns |-> fresh]

\* the writer task ended (break or abort): its receivers are dropped with it
DropReceivers(f, c, fresh) == [f EXCEPT ![c] = fresh]

\* position of the oldest message the channel still holds
OldestRetained ==
    Max(1, Len(broadcast_tx) - BroadcastCapacity + 1)

(* ---------------------------------------------------------------------- *)
(* The accept loop and handle_connection                                   *)
(* ---------------------------------------------------------------------- *)

\* listener.accept() returned a stream: count it and spawn its task
Accept(c) ==
    /\ ws_listener.at = "listening"
    /\ phase[c] = "Idle"
    /\ WriteGuard
    /\ \A d \in Conns : d < c => phase[d] # "Idle"
    /\ status' = IncrementClients(status)
    /\ phase' = [phase EXCEPT ![c] = "Connecting"]
    /\ UNCHANGED << broadcast_tx, pushes, writer_task, rx_local, rx_broadcast,
                    bcast_off, written, dispatched, http_replies,
                    startup, now, served, sync_guard, sync_reply >>

\* accept_async succeeded: subscribe to the broadcast, spawn the writer
HandshakeOk(c) ==
    /\ phase[c] = "Connecting"
    /\ ReadGuard
    /\ phase' = [phase EXCEPT ![c] = "Subscribed"]
    /\ rx_broadcast' = [rx_broadcast EXCEPT ![c] = Len(broadcast_tx) + 1]
    /\ writer_task' = [writer_task EXCEPT ![c] = "running"]
    /\ UNCHANGED << status, broadcast_tx, pushes, rx_local, bcast_off,
                    written, dispatched, http_replies,
                    startup, now, served, sync_guard, sync_reply >>

\* accept_async failed: handle_connection returns the error
HandshakeFail(c) ==
    /\ phase[c] = "Connecting"
    /\ phase' = [phase EXCEPT ![c] = "Returned"]
    /\ UNCHANGED << status, broadcast_tx, pushes, writer_task, rx_local,
                    rx_broadcast, bcast_off, written, dispatched, http_replies,
                    startup, now, served, sync_guard, sync_reply >>

DirectMessage(origin, frame, body) ==
    [origin |-> origin, frame |-> frame, body |-> body]

\* "Send initial status immediately": the snapshot goes on the direct queue
SendInitial(c) ==
    /\ phase[c] = "Subscribed"
    /\ ReadGuard
    /\ phase' = [phase EXCEPT ![c] = "Active"]
    /\ rx_local' = DirectSend(c, DirectMessage("initial", "Text", ToJson(status)))
    /\ UNCHANGED << status, broadcast_tx, pushes, writer_task, rx_broadcast,
                    bcast_off, written, dispatched, http_replies,
                    startup, now, served, sync_guard, sync_reply >>

\* a text frame that parses as IncomingMessage::StatusSync
ReadStatusSync(c, payload) ==
    /\ AwaitingFrame(c)
    /\ WriteGuard
    /\ status' = SyncReplace(status, payload)
    /\ UNCHANGED << broadcast_tx, pushes, phase, writer_task, rx_local,
                    rx_broadcast, bcast_off, written, dispatched, http_replies,
                    startup, now, served, sync_guard, sync_reply >>

\* the StatusSync branch up to `state_guard.status = status`: the write guard
\* is taken, the count saved, the Status overwritten with the peer's
SyncOverwrite(c, payload) ==
    /\ AwaitingFrame(c)
    /\ WriteGuard
    /\ sync_guard' = [holder |-> c, server_client_count |-> status.connected_clients]
    /\ status' = payload
    /\ UNCHANGED << broadcast_tx, pushes, phase, writer_task, rx_local,
                    rx_broadcast, bcast_off, written, dispatched, http_replies,
                    startup, now, served, sync_reply >>

\* the rest of the branch: the saved count put back, the guard dropped
SyncRestore(c) ==
    /\ sync_guard.holder = c
    /\ status' = [status EXCEPT !.connected_clients = sync_guard.server_client_count]
    /\ sync_guard' = NoGuard
    /\ UNCHANGED << broadcast_tx, pushes, phase, writer_task, rx_local,
                    rx_broadcast, bcast_off, written, dispatched, http_replies,
                    startup, now, served, sync_reply >>

\* a caller that loses the command's type on the way to the dispatcher
Dispatch_TypeLost(via, command, ok) ==
    [via |-> via, command |-> command,
     emitted |-> HandleCommand([command EXCEPT !.type = "play"], ok)]

\* both callers of RemoteServer::handle_command: the read loop and POST /command
Dispatch(via, command, ok) ==
    [via |-> via, command |-> command, emitted |-> HandleCommand(command, ok)]

\* a text frame that parses as a RemoteCommand: dispatch, then feedback
ReadCommand(c, command, ok) ==
    /\ AwaitingFrame(c)
    /\ ReadGuard
    /\ Len(dispatched) < MaxDispatch
    /\ dispatched' = Append(dispatched, Dispatch(<<"ws", c>>, command, ok))
    /\ rx_local' = DirectSend(c, DirectMessage("feedback", "Text", ToJson(status)))
    /\ UNCHANGED << status, broadcast_tx, pushes, phase, writer_task,
                    rx_broadcast, bcast_off, written, http_replies,
                    startup, now, served, sync_guard, sync_reply >>

\* a read loop that gives the connection up on a text it cannot parse
ReadMalformed_Closes(c) ==
    /\ AwaitingFrame(c)
    /\ phase' = [phase EXCEPT ![c] = "Returned"]
    /\ UNCHANGED << status, broadcast_tx, pushes, writer_task, rx_local,
                    rx_broadcast, bcast_off, written, dispatched, http_replies,
                    startup, now, served, sync_guard, sync_reply >>

\* a text frame that parses neither as an IncomingMessage nor as a
\* RemoteCommand: a warning, and the loop reads on
ReadMalformed(c) ==
    /\ AwaitingFrame(c)
    /\ UNCHANGED << status, broadcast_tx, pushes, phase, writer_task, rx_local,
                    rx_broadcast, bcast_off, written, dispatched, http_replies,
                    startup, now, served, sync_guard, sync_reply >>

\* a return from the read loop that leaves the writer task running
ReadClose_NoAbort(c) ==
    /\ AwaitingFrame(c)
    /\ phase' = [phase EXCEPT ![c] = "Returned"]
    /\ UNCHANGED << status, broadcast_tx, pushes, writer_task, rx_local,
                    rx_broadcast, bcast_off, written, dispatched, http_replies,
                    startup, now, served, sync_guard, sync_reply >>

\* a Close frame, a read error or the end of the stream: leave the read
\* loop, writer_task.abort(), return
ReadClose(c) ==
    /\ AwaitingFrame(c)
    /\ phase' = [phase EXCEPT ![c] = "Returned"]
    /\ writer_task' = [writer_task EXCEPT
                         ![c] = IF WriterAlive(c) THEN "aborted" ELSE @]
    /\ rx_local' = DropReceivers(rx_local, c, << >>)
    /\ rx_broadcast' = DropReceivers(rx_broadcast, c, 1)
    /\ bcast_off' = DropReceivers(bcast_off, c, FALSE)
    /\ UNCHANGED << status, broadcast_tx, pushes, written, dispatched, http_replies,
                    startup, now, served, sync_guard, sync_reply >>

\* the spawned task after handle_connection returned: uncount the session
Disconnect(c) ==
    /\ phase[c] = "Returned"
    /\ WriteGuard
    /\ phase' = [phase EXCEPT ![c] = "Closed"]
    /\ status' = DecrementClients(status)
    /\ UNCHANGED << broadcast_tx, pushes, writer_task, rx_local, rx_broadcast,
                    bcast_off, written, dispatched, http_replies,
                    startup, now, served, sync_guard, sync_reply >>

(* ---------------------------------------------------------------------- *)
(* The writer task: one select! over the direct queue and the broadcast    *)
(* ---------------------------------------------------------------------- *)

\* write_half.send(..): what it leaves on the socket; a failed send ends the
\* writer task, a good one starts the next round of the loop with `next_local`
\* and `next_broadcast` left to read and the broadcast branch enabled or not
SocketWrite(c, entry, ok, next_local, next_broadcast, off) ==
    /\ written' = [written EXCEPT ![c] = IF ok THEN Append(@, entry) ELSE @]
    /\ writer_task' = [writer_task EXCEPT ![c] = IF ok THEN @ ELSE "failed"]
    /\ rx_local' = IF ok THEN [rx_local EXCEPT ![c] = next_local]
                        ELSE DropReceivers(rx_local, c, << >>)
    /\ rx_broadcast' = IF ok THEN [rx_broadcast EXCEPT ![c] = next_broadcast]
                            ELSE DropReceivers(rx_broadcast, c, 1)
    /\ bcast_off' = IF ok THEN [bcast_off EXCEPT ![c] = off]
                         ELSE DropReceivers(bcast_off, c, FALSE)

\* Some(msg) = rx_local.recv()
WriterLocal(c, ok) ==
    /\ writer_task[c] = "running"
    /\ rx_local[c] # << >>
    /\ SocketWrite(c, [origin |-> Head(rx_local[c]).origin,
                       frame  |-> Head(rx_local[c]).frame,
                       body   |-> Head(rx_local[c]).body,
                       seq    |-> 0],
                   ok, Tail(rx_local[c]), rx_broadcast[c], FALSE)
    /\ UNCHANGED << status, broadcast_tx, pushes, phase, dispatched, http_replies,
                    startup, now, served, sync_guard, sync_reply >>

\* a receiver that hands out the newest message instead of its next one
BroadcastRecv_Newest(c) == broadcast_tx[Len(broadcast_tx)]

\* the message rx_broadcast.recv() hands out when it returns Ok
BroadcastRecv(c) == broadcast_tx[rx_broadcast[c]]

\* Ok(json) = rx_broadcast.recv()
WriterBroadcast(c, ok) ==
    /\ writer_task[c] = "running"
    /\ ~bcast_off[c]
    /\ rx_broadcast[c] >= OldestRetained
    /\ rx_broadcast[c] <= Len(broadcast_tx)
    /\ SocketWrite(c, [origin |-> "broadcast",
                       frame  |-> "Text",
                       body   |-> BroadcastRecv(c).json,
                       seq    |-> BroadcastRecv(c).seq],
                   ok, rx_local[c], rx_broadcast[c] + 1, FALSE)
    /\ UNCHANGED << status, broadcast_tx, pushes, phase, dispatched, http_replies,
                    startup, now, served, sync_guard, sync_reply >>

\* rx_broadcast.recv() returned Err(Lagged): the receiver skips to the oldest
\* retained message and the branch is disabled for this select!
WriterLagged(c) ==
    /\ writer_task[c] = "running"
    /\ ~bcast_off[c]
    /\ rx_broadcast[c] < OldestRetained
    /\ rx_broadcast' = [rx_broadcast EXCEPT ![c] = OldestRetained]
    /\ bcast_off' = [bcast_off EXCEPT ![c] = TRUE]
    /\ UNCHANGED << status, broadcast_tx, pushes, phase, writer_task,
                    rx_local, written, dispatched, http_replies,
                    startup, now, served, sync_guard, sync_reply >>

\* write_half.send(..).await never returns: the peer reads nothing and the
\* socket is full. The message was taken from its queue; the task keeps both
\* receivers and reads neither again
WriterBlocks(c) ==
    /\ writer_task[c] = "running"
    /\ \/ /\ rx_local[c] # << >>
          /\ rx_local' = [rx_local EXCEPT ![c] = Tail(@)]
          /\ UNCHANGED rx_broadcast
       \/ /\ ~bcast_off[c]
          /\ rx_broadcast[c] >= OldestRetained
          /\ rx_broadcast[c] <= Len(broadcast_tx)
          /\ rx_broadcast' = [rx_broadcast EXCEPT ![c] = @ + 1]
          /\ UNCHANGED rx_local
    /\ writer_task' = [writer_task EXCEPT ![c] = "blocked"]
    /\ UNCHANGED << status, broadcast_tx, pushes, phase, bcast_off, written,
                    dispatched, http_replies,
                    startup, now, served, sync_guard, sync_reply >>

(* ---------------------------------------------------------------------- *)
(* The host push and the HTTP surface                                      *)
(* ---------------------------------------------------------------------- *)

\* sync_remote_status with a Store recorded: update_status, then Ok(())
UpdateStatus(new_status) ==
    /\ remote_state # 0
    /\ WriteGuard
    /\ pushes < MaxPushes
    /\ pushes' = pushes + 1
    /\ status' = PushReplace(status, new_status)
    /\ broadcast_tx' = BroadcastSend(broadcast_tx, ToJson(new_status), pushes + 1)
    /\ sync_reply' = "Ok"
    /\ UNCHANGED << phase, writer_task, rx_local, rx_broadcast, bcast_off,
                    written, dispatched, http_replies,
                    startup, now, served, sync_guard >>

\* a sync_remote_status that keeps the pushed Status though no server runs
SyncRejected_Applies(new_status) ==
    /\ remote_state = 0
    /\ sync_reply' = "Remote server is not running"
    /\ status' = new_status
    /\ UNCHANGED << broadcast_tx, pushes, phase, writer_task, rx_local,
                    rx_broadcast, bcast_off, written, dispatched, http_replies,
                    startup, now, served, sync_guard >>

\* sync_remote_status with no Store recorded
SyncRejected(new_status) ==
    /\ remote_state = 0
    /\ sync_reply' = "Remote server is not running"
    /\ UNCHANGED << status, broadcast_tx, pushes, phase, writer_task, rx_local,
                    rx_broadcast, bcast_off, written, dispatched, http_replies,
                    startup, now, served, sync_guard >>

\* GET /status: the stored Status with the timestamp of the read
ServeStatus ==
    /\ http_listener.at = "listening"
    /\ ReadGuard
    /\ served' = << [status EXCEPT !.timestamp = now] >>
    /\ UNCHANGED << status, broadcast_tx, pushes, phase, writer_task, rx_local,
                    rx_broadcast, bcast_off, written, dispatched, http_replies,
                    startup, now, sync_guard, sync_reply >>

\* the wall clock moves on
Tick ==
    /\ now < MaxClock
    /\ now' = now + 1
    /\ UNCHANGED << status, broadcast_tx, pushes, phase, writer_task, rx_local,
                    rx_broadcast, bcast_off, written, dispatched, http_replies,
                    startup, served, sync_guard, sync_reply >>

(* ---------------------------------------------------------------------- *)
(* start_remote_server and the two listeners it spawns                     *)
(* ---------------------------------------------------------------------- *)

\* RemoteServer::new, the two spawns and the record of the running server
CreateAndSpawn ==
    /\ starts' = starts + 1
    /\ stores' = stores + 1
    /\ status' = [InitialStatus EXCEPT !.timestamp = now]
    /\ broadcast_tx' = << >>
    /\ ws_listener' = [at |-> "starting", store |-> stores + 1]
    /\ http_listener' = [at |-> "starting", store |-> stores + 1]
    /\ is_running' = TRUE
    /\ remote_state' = stores + 1
    /\ UNCHANGED << pushes, phase, writer_task, rx_local, rx_broadcast,
                    bcast_off, written, dispatched, http_replies,
                    server_errors, now, served, sync_guard, sync_reply >>

\* the early return: the recorded RemoteServerState, nothing else done
AlreadyRunning ==
    /\ starts' = starts + 1
    /\ UNCHANGED << status, broadcast_tx, pushes, phase, writer_task, rx_local,
                    rx_broadcast, bcast_off, written, dispatched, http_replies,
                    is_running, remote_state, ws_listener, http_listener,
                    stores, server_errors, now, served, sync_guard, sync_reply >>

\* a start that does not look at is_running
StartRemoteServer_NoCheck ==
    /\ starts < MaxStarts
    /\ CreateAndSpawn

\* start_remote_server: the whole body runs under the remote_server mutex
StartRemoteServer ==
    /\ starts < MaxStarts
    /\ IF is_running THEN AlreadyRunning ELSE CreateAndSpawn

\* a spawned task that keeps a failed start() to itself
BindResult_Silent(listener, ok, label, delivered) ==
    /\ listener.at = "starting"
    /\ server_errors' = server_errors

\* what a spawned listener task makes of the result of start()
BindResult(listener, ok, label, delivered) ==
    /\ listener.at = "starting"
    /\ server_errors' =
          IF ok THEN server_errors
          ELSE server_errors \o Emit("remote-server-error", label, delivered)

\* RemoteServer::start: TcpListener::bind on port + 1
WsBind(ok, delivered) ==
    /\ BindResult(ws_listener, ok, "WebSocket error", delivered)
    /\ ws_listener' = [ws_listener EXCEPT !.at = IF ok THEN "listening" ELSE "failed"]
    /\ UNCHANGED << status, broadcast_tx, pushes, phase, writer_task, rx_local,
                    rx_broadcast, bcast_off, written, dispatched, http_replies,
                    is_running, remote_state, http_listener, starts, stores,
                    now, served, sync_guard, sync_reply >>

\* MobileInterfaceServer::start: TcpListener::bind on the port
HttpBind(ok, delivered) ==
    /\ BindResult(http_listener, ok, "HTTP error", delivered)
    /\ http_listener' = [http_listener EXCEPT !.at = IF ok THEN "listening" ELSE "failed"]
    /\ UNCHANGED << status, broadcast_tx, pushes, phase, writer_task, rx_local,
                    rx_broadcast, bcast_off, written, dispatched, http_replies,
                    is_running, remote_state, ws_listener, starts, stores,
                    now, served, sync_guard, sync_reply >>

\* an acknowledgement that reports whether the dispatcher knew the type
Acknowledgement_KnownOnly(command) ==
    [success |-> command.type \in CommandTypes, message |-> "Command executed",
     command |-> command.type]

\* the acknowledgement of POST /command; its fourth member, "timestamp", is
\* the wall clock at the reply and is not kept
Acknowledgement(command) ==
    [success |-> TRUE, message |-> "Command executed", command |-> command.type]

\* a POST /command that also publishes the Status it found
HttpCommand_Publishes(command, ok) ==
    /\ http_listener.at = "listening"
    /\ ReadGuard
    /\ Len(dispatched) < MaxDispatch
    /\ dispatched' = Append(dispatched, Dispatch(<<"http">>, command, ok))
    /\ http_replies' = Append(http_replies, Acknowledgement(command))
    /\ broadcast_tx' = BroadcastSend(broadcast_tx, ToJson(status), pushes + 1)
    /\ UNCHANGED << status, pushes, phase, writer_task,
                    rx_local, rx_broadcast, bcast_off, written,
                    startup, now, served, sync_guard, sync_reply >>

\* POST /command
HttpCommand(command, ok) ==
    /\ http_listener.at = "listening"
    /\ ReadGuard
    /\ Len(dispatched) < MaxDispatch
    /\ dispatched' = Append(dispatched, Dispatch(<<"http">>, command, ok))
    /\ http_replies' = Append(http_replies, Acknowledgement(command))
    /\ UNCHANGED << status, broadcast_tx, pushes, phase, writer_task,
                    rx_local, rx_broadcast, bcast_off, written,
                    startup, now, served, sync_guard, sync_reply >>

(* ---------------------------------------------------------------------- *)
(* Specifications                                                          *)
(* ---------------------------------------------------------------------- *)

\* start_remote_server with both binds succeeding: the server in service
StartUp ==
    \/ ~is_running /\ StartRemoteServer
    \/ \E ok \in {TRUE}, delivered \in {TRUE} : WsBind(ok, delivered)

Next ==
    \/ StartRemoteServer
    \/ \E ok \in BOOLEAN, delivered \in BOOLEAN : WsBind(ok, delivered)
    \/ \E ok \in BOOLEAN, delivered \in BOOLEAN : HttpBind(ok, delivered)
    \/ Tick
    \/ ServeStatus
    \/ \E new_status \in HostPayloads : SyncRejected(new_status)
    \/ \E c \in Conns, payload \in SyncPayloads : SyncOverwrite(c, payload)
    \/ \E c \in Conns : SyncRestore(c)
    \/ \E c \in Conns : Accept(c)
    \/ \E c \in Conns : HandshakeOk(c)
    \/ \E c \in Conns : HandshakeFail(c)
    \/ \E c \in Conns : SendInitial(c)
    \/ \E c \in Conns, payload \in SyncPayloads : ReadStatusSync(c, payload)
    \/ \E c \in Conns, command \in SessionCommands, ok \in BOOLEAN :
          ReadCommand(c, command, ok)
    \/ \E c \in Conns : ReadMalformed(c)
    \/ \E c \in Conns : ReadClose(c)
    \/ \E c \in Conns : Disconnect(c)
    \/ \E c \in Conns, ok \in BOOLEAN : WriterLocal(c, ok)
    \/ \E c \in Conns, ok \in BOOLEAN : WriterBroadcast(c, ok)
    \/ \E c \in Conns : WriterLagged(c)
    \/ \E c \in Conns : WriterBlocks(c)
    \/ \E new_status \in HostPayloads : UpdateStatus(new_status)
    \/ \E command \in SessionCommands, ok \in BOOLEAN : HttpCommand(command, ok)

\* the whole server; the properties below are checked under the parts of it
\* that write the state they speak of
Spec == Init /\ [][Next]_vars

\* the Status Store under the connection life cycle, status-sync and the
\* host push: every action that writes `status` or publishes
NextStore ==
    \/ StartUp
    \/ \E c \in Conns : Accept(c)
    \/ \E c \in Conns : HandshakeOk(c)
    \/ \E c \in Conns : HandshakeFail(c)
    \/ \E c \in Conns : SendInitial(c)
    \/ \E c \in Conns, payload \in SyncPayloads : ReadStatusSync(c, payload)
    \/ \E c \in Conns : ReadClose(c)
    \/ \E c \in Conns : Disconnect(c)
    \/ \E new_status \in HostPayloads : UpdateStatus(new_status)

SpecStore == Init /\ [][NextStore]_vars

\* the sessions with their writer tasks, fed by the host push
NextSessions ==
    \/ NextStore
    \/ \E c \in Conns, ok \in BOOLEAN : WriterLocal(c, ok)
    \/ \E c \in Conns, ok \in BOOLEAN : WriterBroadcast(c, ok)
    \/ \E c \in Conns : WriterLagged(c)

SpecSessions == Init /\ [][NextSessions]_vars

\* the executor runs every task that can take a step: the writer task of
\* each connection, and the connection task's own steps that wait for no
\* peer (the initial snapshot, the uncount after the return)
Scheduling ==
    \A c \in Conns :
        /\ WF_vars(\E ok \in BOOLEAN : WriterLocal(c, ok))
        /\ WF_vars(\E ok \in BOOLEAN : WriterBroadcast(c, ok))
        /\ WF_vars(WriterLagged(c))
        /\ WF_vars(SendInitial(c))
        /\ WF_vars(Disconnect(c))

FairSessions == SpecSessions /\ Scheduling

\* the sessions, the host push and clients that stop reading their socket
NextSlow ==
    \/ StartUp
    \/ \E c \in Conns : Accept(c)
    \/ \E c \in Conns : HandshakeOk(c)
    \/ \E c \in Conns : SendInitial(c)
    \/ \E c \in Conns : ReadClose(c)
    \/ \E c \in Conns : Disconnect(c)
    \/ \E new_status \in HostPayloads : UpdateStatus(new_status)
    \/ \E c \in Conns, ok \in BOOLEAN : WriterLocal(c, ok)
    \/ \E c \in Conns, ok \in BOOLEAN : WriterBroadcast(c, ok)
    \/ \E c \in Conns : WriterLagged(c)
    \/ \E c \in Conns : WriterBlocks(c)

SpecSlow == Init /\ [][NextSlow]_vars

FairSlow == SpecSlow /\ Scheduling

\* the command dispatcher behind both transports
NextDispatch ==
    \/ StartUp
    \/ \E ok \in {TRUE}, delivered \in {TRUE} : HttpBind(ok, delivered)
    \/ \E c \in Conns : Accept(c)
    \/ \E c \in Conns : HandshakeOk(c)
    \/ \E c \in Conns : SendInitial(c)
    \/ \E c \in Conns, command \in Commands, ok \in BOOLEAN :
          ReadCommand(c, command, ok)
    \/ \E c \in Conns : ReadMalformed(c)
    \/ \E command \in Commands, ok \in BOOLEAN : HttpCommand(command, ok)

SpecDispatch == Init /\ [][NextDispatch]_vars

\* the read loop's replies: the dispatcher's callers and the writer task
\* that drains each connection's direct queue
NextFeedback ==
    \/ NextDispatch
    \/ \E c \in Conns, ok \in BOOLEAN : WriterLocal(c, ok)

SpecFeedback == Init /\ [][NextFeedback]_vars

\* every way a Status leaves the Store, under a clock that moves
NextClock ==
    \/ StartUp
    \/ \E ok \in {TRUE}, delivered \in {TRUE} : HttpBind(ok, delivered)
    \/ Tick
    \/ ServeStatus
    \/ \E c \in Conns : Accept(c)
    \/ \E c \in Conns : HandshakeOk(c)
    \/ \E c \in Conns : SendInitial(c)
    \/ \E c \in Conns, command \in SessionCommands, ok \in BOOLEAN :
          ReadCommand(c, command, ok)
    \/ \E new_status \in HostPayloads : UpdateStatus(new_status)

SpecClock == Init /\ [][NextClock]_vars

\* the host application's commands and the two listeners, with the
\* connections and the HTTP reads that show which of them serve
NextHost ==
    \/ StartRemoteServer
    \/ \E ok \in BOOLEAN, delivered \in BOOLEAN : WsBind(ok, delivered)
    \/ \E ok \in BOOLEAN, delivered \in BOOLEAN : HttpBind(ok, delivered)
    \/ \E new_status \in HostPayloads : SyncRejected(new_status)
    \/ \E new_status \in HostPayloads : UpdateStatus(new_status)
    \/ ServeStatus
    \/ \E c \in Conns : Accept(c)
    \/ \E c \in Conns : HandshakeOk(c)
    \/ \E c \in Conns : SendInitial(c)
    \/ \E c \in Conns : ReadClose(c)
    \/ \E c \in Conns : Disconnect(c)

SpecHost == Init /\ [][NextHost]_vars

\* the StatusSync branch statement by statement, among the readers and the
\* other writers of the Store
NextLocked ==
    \/ StartUp
    \/ \E ok \in {TRUE}, delivered \in {TRUE} : HttpBind(ok, delivered)
    \/ ServeStatus
    \/ \E c \in Conns : Accept(c)
    \/ \E c \in Conns : HandshakeOk(c)
    \/ \E c \in Conns : SendInitial(c)
    \/ \E c \in Conns, payload \in SyncPayloads : SyncOverwrite(c, payload)
    \/ \E c \in Conns : SyncRestore(c)
    \/ \E c \in Conns, command \in SessionCommands, ok \in BOOLEAN :
          ReadCommand(c, command, ok)
    \/ \E new_status \in HostPayloads : UpdateStatus(new_status)

SpecLocked == Init /\ [][NextLocked]_vars


(* ---------------------------------------------------------------------- *)
(* Properties                                                              *)
(* ---------------------------------------------------------------------- *)

\* the sessions the Gateway counts: accepted and not yet uncounted
Tracked == { c \in Conns : phase[c] \in {"Connecting", "Subscribed", "Active", "Returned"} }

\* the sessions whose read loop or set-up is running
Live == { c \in Conns : phase[c] \in {"Subscribed", "Active"} }

\* the members of RemoteStatus other than connected_clients
PeerFields ==
    { "is_playing", "current_speed", "current_segment", "total_segments",
      "project_name", "timestamp", "is_live" }

\* C1: in every reachable state connected_clients equals the number of
\* sessions the Gateway tracks, never a value out of a Status payload.
C1_CountIsTracked ==
    status.connected_clients = Cardinality(Tracked)

\* C3: a status-sync applied to the Store publishes the resulting snapshot
\* on the broadcast channel (whenever a subscriber is there to take it).
C3_SyncIsPublished ==
    [][ \A c \in Conns, payload \in SyncPayloads :
          (ReadStatusSync(c, payload) /\ Receivers # {})
             => /\ Len(broadcast_tx') = Len(broadcast_tx) + 1
                /\ broadcast_tx'[Len(broadcast_tx')].json = ToJson(status') ]_vars

\* C4: a status-sync with any payload leaves connected_clients as it was
\* and sets every other member of the Status to the payload's value.
C4_SyncKeepsCount ==
    [][ \A c \in Conns, payload \in SyncPayloads :
          ReadStatusSync(c, payload)
             => /\ status'.connected_clients = status.connected_clients
                /\ \A f \in PeerFields : status'[f] = payload[f] ]_vars

\* C4 witness: the payload with connected_clients = 999 is in the Store and
\* the count is still that of the tracked sessions.
C4_Witness ==
    /\ \E payload \in SyncPayloads :
          /\ payload.connected_clients = 999
          /\ \A f \in PeerFields : status[f] = payload[f]
    /\ status.connected_clients = Cardinality(Tracked)
    /\ status.connected_clients = 2

\* C5: the host push leaves connected_clients as it was, overwrites the other
\* members, and publishes a snapshot that carries the preserved count.
C5_PushKeepsCount ==
    [][ \A new_status \in HostPayloads :
          UpdateStatus(new_status)
             => /\ status'.connected_clients = status.connected_clients
                /\ \A f \in PeerFields : status'[f] = new_status[f]
                /\ Receivers # {} =>
                      broadcast_tx'[Len(broadcast_tx')].json = ToJson(status') ]_vars

Connects == { c \in Conns : phase[c] # "Idle" }
Disconnects == { c \in Conns : phase[c] = "Closed" }

\* C6: with N connections counted and M of them uncounted, and nothing but
\* those increments and decrements writing the count (no host push yet),
\* connected_clients is N - M; and it is never below 0 in any state, also
\* after a decrement of a count that was 0.
C6_CountIsConnectsMinusDisconnects ==
    /\ status.connected_clients >= 0
    /\ pushes = 0 =>
          status.connected_clients = Cardinality(Connects) - Cardinality(Disconnects)

\* C6 witness: two connections were counted, one of them is uncounted.
C6_Witness ==
    /\ pushes = 0
    /\ Cardinality(Connects) = 2
    /\ Cardinality(Disconnects) = 1
    /\ status.connected_clients = 1


\* C2: the first message written to a client is the initial snapshot, before
\* any message that came off the broadcast channel.
C2_InitialFirst ==
    \A c \in Conns :
        written[c] # << >> => written[c][1].origin = "initial"

\* the receiver of c has missed a message or is about to learn that it has
Lagging(c) == bcast_off[c] \/ rx_broadcast[c] < OldestRetained

\* snapshot number n is on the channel, unread by c, which subscribed before
\* it was published and has missed nothing
Pending(c, n) ==
    /\ c \in Live
    /\ writer_task[c] = "running"
    /\ ~Lagging(c)
    /\ \E i \in rx_broadcast[c]..Len(broadcast_tx) : broadcast_tx[i].seq = n

\* snapshot number n was written to c as the string that was published
Got(c, n) ==
    \E i \in DOMAIN written[c], k \in DOMAIN broadcast_tx :
        /\ broadcast_tx[k].seq = n
        /\ written[c][i].origin = "broadcast"
        /\ written[c][i].seq = n
        /\ written[c][i].body = broadcast_tx[k].json

\* C7: a published snapshot is eventually written, as the same JSON string,
\* to every session subscribed when it was published, unless the session
\* lags or leaves Active.
C7_EveryoneGetsIt ==
    \A c \in Conns, n \in 1..MaxPushes :
        [](Pending(c, n) => <>(Got(c, n) \/ Lagging(c) \/ c \notin Live))

\* C8: each session is written the broadcast snapshots in the order they
\* were published, so no two sessions see two of them in different orders.
C8_PublishOrder ==
    \A c \in Conns :
        \A i, j \in DOMAIN written[c] :
            (i < j /\ written[c][i].origin = "broadcast"
                   /\ written[c][j].origin = "broadcast")
               => written[c][i].seq < written[c][j].seq

\* C8 witness: two sessions were each written two broadcast snapshots.
C8_Witness ==
    \A c \in Conns :
        \E i, j \in DOMAIN written[c] :
            /\ i < j
            /\ written[c][i].origin = "broadcast"
            /\ written[c][j].origin = "broadcast"

\* C9: a set_speed command with a numeric value v emits exactly one
\* remote-set-speed event, with payload min(max(v, 0.5), 2.0).
C9_SpeedClamped ==
    \A i \in DOMAIN dispatched :
        (/\ dispatched[i].command.type = "set_speed"
         /\ dispatched[i].command.value.kind = "number")
           => /\ Len(dispatched[i].emitted) = 1
              /\ dispatched[i].emitted[1].event = "remote-set-speed"
              /\ dispatched[i].emitted[1].payload.kind = "number"
              /\ dispatched[i].emitted[1].payload.num =
                    ( IF dispatched[i].command.value.num < 5 THEN 5
                      ELSE IF dispatched[i].command.value.num > 20 THEN 20
                      ELSE dispatched[i].command.value.num )

\* C9 witness: set_speed 5.0 was dispatched and 2.0 emitted.
C9_Witness ==
    \E i \in DOMAIN dispatched :
        /\ dispatched[i].command = [type |-> "set_speed", value |-> Number(50)]
        /\ Len(dispatched[i].emitted) = 1
        /\ dispatched[i].emitted[1].payload = Number(20)

\* the event name the interface gives each command type
AssignedEvent ==
    [ t \in CommandTypes |->
        CASE t = "play" -> "remote-play"
          [] t = "pause" -> "remote-pause"
          [] t = "stop" -> "remote-stop"
          [] t = "next_segment" -> "remote-next-segment"
          [] t = "prev_segment" -> "remote-prev-segment"
          [] t = "set_speed" -> "remote-set-speed"
          [] t = "toggle_mirror" -> "remote-toggle-mirror"
          [] t = "reset_position" -> "remote-reset-position"
          [] t = "go_live" -> "remote-go-live"
          [] t = "exit_live" -> "remote-exit-live"
          [] t = "seek" -> "remote-seek" ]

\* a known type, with a number where the type reads one
ValidCommand(command) ==
    /\ command.type \in CommandTypes
    /\ command.type \in ValuedTypes => command.value.kind = "number"

\* C10: each known command type with a valid payload emits exactly one event,
\* the one of its type; different types emit different events; and the
\* transport the command came by makes no difference.
C10_OneEventPerType ==
    /\ \A i \in DOMAIN dispatched :
          ValidCommand(dispatched[i].command)
             => /\ Len(dispatched[i].emitted) = 1
                /\ dispatched[i].emitted[1].event =
                      AssignedEvent[dispatched[i].command.type]
    /\ \A i, j \in DOMAIN dispatched :
          (Len(dispatched[i].emitted) = 1 /\ Len(dispatched[j].emitted) = 1)
             => ( dispatched[i].command.type = dispatched[j].command.type
                    <=> dispatched[i].emitted[1].event = dispatched[j].emitted[1].event )
    /\ \A t, u \in CommandTypes : t # u => AssignedEvent[t] # AssignedEvent[u]

\* C10 witness: a command that came by POST /command emitted its one event.
C10_Witness ==
    \E i \in DOMAIN dispatched :
        /\ dispatched[i].via = <<"http">>
        /\ dispatched[i].command.type = "exit_live"
        /\ Len(dispatched[i].emitted) = 1
        /\ dispatched[i].emitted[1].event = "remote-exit-live"

\* C11: an inbound message that fails validation (a text that does not parse,
\* an unknown command type, set_speed or seek without a number) is dropped:
\* the dispatcher emits no event for it, the Status in the Store stays as it
\* was, and the connection it came on is still Active.
C11_InvalidIsDropped ==
    [][ \A c \in Conns :
          ( \/ ReadMalformed(c)
            \/ \E command \in Commands, ok \in BOOLEAN :
                  ~ValidCommand(command) /\ ReadCommand(c, command, ok) )
          => /\ status' = status
             /\ phase'[c] = "Active"
             /\ \/ dispatched' = dispatched
                \/ /\ Len(dispatched') = Len(dispatched) + 1
                   /\ dispatched'[Len(dispatched')].emitted = << >>
             /\ http_replies' = http_replies ]_vars

\* C11 witness: an unknown command came by WebSocket, nothing was emitted
\* for it, and its session is Active with the Status a connected client sees.
C11_Witness ==
    \E i \in DOMAIN dispatched, c \in Conns :
        /\ dispatched[i].via = <<"ws", c>>
        /\ dispatched[i].command.type = "frobnicate"
        /\ dispatched[i].emitted = << >>
        /\ phase[c] = "Active"
        /\ status.connected_clients >= 1

\* the commands that came by POST /command, in the order they came
HttpDispatched == SelectSeq(dispatched, LAMBDA d : d.via = <<"http">>)

\* C12: POST /command answers every body that parses as a command with the
\* acknowledgement, success = true and the command's type, whether the type
\* is known or not, whether set_speed or seek has its number or not, and
\* whether the event reached the host or not.
C12_HttpAlwaysAcknowledges ==
    /\ Len(http_replies) = Len(HttpDispatched)
    /\ \A i \in DOMAIN http_replies :
          /\ http_replies[i].success = TRUE
          /\ http_replies[i].message = "Command executed"
          /\ http_replies[i].command = HttpDispatched[i].command.type

\* C12 witness: a seek without a number came by POST /command, nothing was
\* emitted for it, and it was acknowledged with success.
C12_Witness ==
    \E i \in DOMAIN http_replies :
        /\ HttpDispatched[i].command = [type |-> "seek", value |-> Text("fast")]
        /\ HttpDispatched[i].emitted = << >>
        /\ http_replies[i].success = TRUE
        /\ http_replies[i].command = "seek"

\* C13: handling POST /command, for any command, leaves connected_clients
\* and every other Status field as they were and publishes nothing.
C13_HttpLeavesStatus ==
    [][ (\E command \in Commands, ok \in BOOLEAN : HttpCommand(command, ok))
          => /\ status' = status
             /\ broadcast_tx' = broadcast_tx ]_vars

\* C13 witness: POST /command was handled while a client was connected and
\* subscribed; the count is that client and nothing is on the channel.
C13_Witness ==
    /\ http_replies # << >>
    /\ Receivers # {}
    /\ status.connected_clients = Cardinality(Tracked)
    /\ \A k \in PeerFields : status[k] = InitialStatus[k]
    /\ broadcast_tx = << >>

\* C14: a WebSocket client is sent no reply and no feedback for an inbound
\* message that is dropped: a text that does not parse, an unknown command
\* type, set_speed or seek without a number.
C14_NoReplyForDropped ==
    [][ \A c \in Conns :
          ( \/ ReadMalformed(c)
            \/ \E command \in Commands, ok \in BOOLEAN :
                  ~ValidCommand(command) /\ ReadCommand(c, command, ok) )
          => rx_local'[c] = rx_local[c] ]_vars

\* the snapshot the read loop sends back after a command
Feedback == DirectMessage("feedback", "Text", ToJson(status))

\* C15: after a WebSocket client's command is dispatched, exactly one
\* snapshot of the current Status is put on that client's own direct queue,
\* and nothing goes to any other session: not on its queue, not on the
\* broadcast channel, not on its socket.
C15_FeedbackToSenderOnly ==
    [][ \A c \in Conns :
          (\E command \in Commands, ok \in BOOLEAN : ReadCommand(c, command, ok))
          => /\ rx_local'[c] = Append(rx_local[c], Feedback)
             /\ \A d \in Conns \ {c} :
                   rx_local'[d] = rx_local[d] /\ written'[d] = written[d]
             /\ broadcast_tx' = broadcast_tx ]_vars

\* what belongs to session d alone: its place in the connection task, its
\* writer task, its direct queue, its broadcast receiver, its socket
Session(d) ==
    << phase[d], writer_task[d], rx_local[d], rx_broadcast[d], bcast_off[d],
       written[d] >>

\* C16: closing one connection cancels only that connection's writer task:
\* the step that leaves its read loop, and the step that uncounts it, leave
\* every other session's read loop, writer task, direct queue and broadcast
\* subscription as they were, with what is on the channel, and the accept
\* loop takes the next connection whatever has been closed.
C16_CloseTouchesOnlyItself ==
    /\ [][ \A c \in Conns :
             (ReadClose(c) \/ Disconnect(c))
             => /\ \A d \in Conns \ {c} : Session(d)' = Session(d)
                /\ broadcast_tx' = broadcast_tx ]_vars
    /\ []( (ws_listener.at = "listening" /\ \E d \in Conns : phase[d] = "Idle")
              => ENABLED (\E d \in Conns : Accept(d)) )

\* C16 witness: one session is closed and its writer aborted, the other is
\* Active, its writer running, and has been written a broadcast snapshot
\* with one more waiting for it.
C16_Witness ==
    \E c, d \in Conns :
        /\ c # d
        /\ phase[c] = "Closed" /\ writer_task[c] = "aborted"
        /\ phase[d] = "Active" /\ writer_task[d] = "running"
        /\ \E i \in DOMAIN written[d] : written[d][i].origin = "broadcast"
        /\ rx_broadcast[d] <= Len(broadcast_tx)

\* the socket of c takes no more bytes and its writer task waits in a write
Slow(c) == writer_task[c] = "blocked"

C18_CountedOnHandshake ==
    [][ status'.connected_clients > status.connected_clients
          => \E c \in Conns :
                phase[c] = "Connecting" /\ phase'[c] \in {"Subscribed", "Active"} ]_vars

\* the read loop of c has returned
Left(c) == phase[c] \in {"Returned", "Closed"}

\* C19: after a Close frame or a read error on an Active session the session
\* eventually reaches Closed; its writer task is cancelled, so nothing is
\* written to that client once the read loop has returned; and the Store's
\* decrement is applied exactly once for it, in the step that closes it.
C19_CloseThenClosed ==
    /\ \A c \in Conns : [](phase[c] = "Returned" => <>(phase[c] = "Closed"))
    /\ [](\A c \in Conns : Left(c) => ~WriterAlive(c))
    /\ [][ \A c \in Conns : Left(c) => written'[c] = written[c] ]_vars
    /\ [][ \A c \in Conns :
             /\ ReadClose(c) => status' = status
             /\ (phase[c] # "Closed" /\ phase'[c] = "Closed")
                   => /\ phase[c] = "Returned"
                      /\ status'.connected_clients =
                            IF status.connected_clients > 0
                            THEN status.connected_clients - 1 ELSE 0
             /\ phase[c] = "Closed" => phase'[c] = "Closed" ]_vars

\* C19 witness: a session that had been written its snapshot is Closed, its
\* writer aborted, and the count is the one session still connected.
C19_Witness ==
    \E c \in Conns, d \in Conns :
        /\ phase[c] = "Closed" /\ writer_task[c] = "aborted"
        /\ written[c] # << >>
        /\ phase[d] = "Active"
        /\ pushes = 0
        /\ status.connected_clients = 1

\* C20: a socket write error on a session leads to the connection being torn
\* down: the session eventually leaves Active and is uncounted, with no
\* Close frame and no read error needed.
C20_WriteErrorTearsDown ==
    \A c \in Conns :
        [](writer_task[c] = "failed" => <>(phase[c] = "Closed"))

\* the "timestamp" member of a serialized Status
TimestampOf(json) == json[6][2]

\* C21: every Status snapshot that leaves the Store carries the time of that
\* read or broadcast, not the timestamp that was stored or pushed: the reply
\* of GET /status, the initial snapshot, the feedback after a command and
\* every broadcast are stamped with the clock of the step that emits them
\* (so a later snapshot never carries a smaller timestamp than an earlier).
C21_TimestampRefreshed ==
    [][ /\ ServeStatus => served'[1].timestamp = now
        /\ \A c \in Conns :
              ( /\ \/ SendInitial(c)
                   \/ \E command \in SessionCommands, ok \in BOOLEAN :
                         ReadCommand(c, command, ok)
                /\ rx_local'[c] # rx_local[c] )
              => TimestampOf(rx_local'[c][Len(rx_local'[c])].body) = now
        /\ ( /\ \E new_status \in HostPayloads : UpdateStatus(new_status)
             /\ broadcast_tx' # broadcast_tx )
              => TimestampOf(broadcast_tx'[Len(broadcast_tx')].json) = now ]_vars

\* the listener's task has emitted remote-server-error with this label
Surfaced(label) ==
    \E i \in DOMAIN server_errors :
        /\ server_errors[i].event = "remote-server-error"
        /\ server_errors[i].payload = label

\* C22: a bind failure of either listener is surfaced to the application as
\* a remote-server-error event, and it neither stops nor prevents the other
\* service: the step in which one listener fails leaves the other as it is,
\* the other can still bind, and once bound it serves (GET /status on the
\* HTTP side, the accept loop on the WebSocket side).
C22_BindFailureIsLocal ==
    /\ []( /\ ws_listener.at = "failed" => Surfaced("WebSocket error")
           /\ http_listener.at = "failed" => Surfaced("HTTP error") )
    /\ [][ /\ ws_listener'.at # ws_listener.at /\ ws_listener.at # "none"
              => http_listener' = http_listener
           /\ http_listener'.at # http_listener.at /\ http_listener.at # "none"
              => ws_listener' = ws_listener ]_vars
    /\ []( /\ (ws_listener.at = "failed" /\ http_listener.at = "starting")
                => ENABLED HttpBind(TRUE, TRUE)
           /\ (http_listener.at = "failed" /\ ws_listener.at = "starting")
                => ENABLED WsBind(TRUE, TRUE)
           /\ (ws_listener.at = "failed" /\ http_listener.at = "listening")
                => ENABLED ServeStatus
           /\ (http_listener.at = "failed" /\ ws_listener.at = "listening"
                  /\ \E c \in Conns : phase[c] = "Idle")
                => ENABLED (\E c \in Conns : Accept(c)) )

\* C22 witness: the WebSocket listener failed to bind and said so; the HTTP
\* listener bound after that failure and has answered GET /status.
C22_Witness ==
    /\ ws_listener.at = "failed"
    /\ Surfaced("WebSocket error")
    /\ http_listener.at = "listening"
    /\ served # NothingServed

\* C23: if a listener fails to bind its port the remote server does not
\* start: start_remote_server does not leave is_running = true behind.
C23_NotRunningAfterBindFailure ==
    (ws_listener.at = "failed" \/ http_listener.at = "failed") => ~is_running

\* the Statuses a whole mutation leaves in the Store: the defaults or one
\* payload, with a count that the server, not a peer, put there
WholeStatuses ==
    { [src EXCEPT !.connected_clients = n] :
        src \in {InitialStatus} \cup SyncPayloads \cup HostPayloads,
        n \in 0..MaxConns }

\* C24: no reader ever observes a partially applied mutation: the body of
\* GET /status (its timestamp apart, which that read sets itself), the
\* initial snapshot and the command feedback each show the fields of one
\* single payload, or the defaults, and never the connected_clients a peer
\* sent in a status-sync, also not between the overwrite and the restore.
C24_ReadersSeeWholeStatus ==
    /\ \A i \in DOMAIN served :
          \E whole \in WholeStatuses :
              served[i] = [whole EXCEPT !.timestamp = served[i].timestamp]
    /\ \A c \in Conns : \A i \in DOMAIN rx_local[c] :
          \E whole \in WholeStatuses : rx_local[c][i].body = ToJson(whole)

\* C24 witness: a status-sync has been applied while two clients were
\* connected, and GET /status and a later initial snapshot both show the
\* peer's fields with the server's count of 2.
C24_Witness ==
    /\ sync_guard = NoGuard
    /\ served # NothingServed
    /\ served[1].project_name = "Synced Talk"
    /\ served[1].connected_clients = 2
    /\ \E c \in Conns : \E i \in DOMAIN rx_local[c] :
          /\ rx_local[c][i].origin = "initial"
          /\ rx_local[c][i].body =
                ToJson([served[1] EXCEPT !.timestamp = status.timestamp])

\* snapshot number n is still on the channel for the receiver of c to read
Retained(c, n) ==
    \E i \in Max(rx_broadcast[c], OldestRetained)..Len(broadcast_tx) :
        broadcast_tx[i].seq = n

\* C25: a session whose broadcast subscription lagged sees only a gap: the
\* lag does not end its writer, and while the session stays Active the
\* writer goes on to deliver the later snapshots the channel still holds,
\* with no message on the direct queue needed first. (A writer that its own
\* write error ended, or that waits in a blocked write, is left aside.)
C25_LagIsOnlyAGap ==
    /\ [][ \A c \in Conns : WriterLagged(c) => writer_task'[c] = "running" ]_vars
    /\ \A c \in Conns, n \in 1..MaxPushes :
          []( (bcast_off[c] /\ phase[c] = "Active" /\ Retained(c, n))
                => <>( \/ Got(c, n)
                       \/ c \notin Live
                       \/ ~Retained(c, n)
                       \/ writer_task[c] \in {"failed", "blocked"} ) )

\* C26: start_remote_server is idempotent: only the first call creates a
\* Status Store and spawns the two listeners; every later call changes
\* nothing but the count of calls; so the WebSocket listener, the HTTP
\* listener and the host push hold the same one Store.
C26_StartIsIdempotent ==
    /\ []( /\ stores <= 1
           /\ is_running
                => /\ stores = 1
                   /\ remote_state = stores
                   /\ ws_listener.store = stores
                   /\ http_listener.store = stores )
    /\ [][ (starts >= 1 /\ starts' = starts + 1)
             => /\ stores' = stores
                /\ status' = status
                /\ broadcast_tx' = broadcast_tx
                /\ ws_listener' = ws_listener
                /\ http_listener' = http_listener
                /\ remote_state' = remote_state
                /\ is_running' = is_running ]_vars

\* C26 witness: start_remote_server was called twice; one Store exists, both
\* listeners serve from it, a client is Active on it, the host has pushed
\* into it and GET /status has read the pushed Status from it.
C26_Witness ==
    /\ starts = 2
    /\ stores = 1
    /\ ws_listener = [at |-> "listening", store |-> 1]
    /\ http_listener = [at |-> "listening", store |-> 1]
    /\ \E c \in Conns : phase[c] = "Active"
    /\ sync_reply = "Ok"
    /\ served # NothingServed
    /\ served[1].project_name = "Host Talk"

\* C27: a host push made before start_remote_server has run returns the
\* error "Remote server is not running", changes no state and publishes
\* nothing; once the server has been started a Store is recorded, no push
\* is rejected and every push returns Ok.
C27_PushNeedsServer ==
    /\ [][ (\E new_status \in HostPayloads : SyncRejected(new_status))
             => /\ ~is_running
                /\ sync_reply' = "Remote server is not running"
                /\ status' = status
                /\ broadcast_tx' = broadcast_tx
                /\ pushes' = pushes ]_vars
    /\ []( ~is_running => (sync_reply # "Ok" /\ status = InitialStatus) )
    /\ []( is_running
             => /\ remote_state # 0
                /\ ~ENABLED (\E new_status \in HostPayloads : SyncRejected(new_status)) )
    /\ [][ (\E new_status \in HostPayloads : UpdateStatus(new_status))
             => is_running /\ sync_reply' = "Ok" ]_vars

\* C27 witness: a push made before the start was rejected with the error;
\* no server runs, no Store was created, nothing was published.
C27_Witness ==
    /\ sync_reply = "Remote server is not running"
    /\ ~is_running
    /\ stores = 0
    /\ pushes = 0
    /\ broadcast_tx = << >>

====
